---- MODULE Spec2Model ----
(***************************************************************************)
(* Flight Report Assistant: the ingestion / enrichment / storage pipeline. *)
(*                                                                         *)
(*   assistant/event_processor.py   parsers, get_parser,                   *)
(*                                  process_and_store_files                *)
(*   assistant/ai_service.py        MockAIService, HuggingFaceAIService    *)
(*   assistant/database_handler.py  SQLiteHandler                          *)
(*   assistant/cli.py               init, ingest, stats, list, show        *)
(*                                                                         *)
(* Python strings are TLA+ strings; a JSON null / Python None is the       *)
(* marker Null, a nested JSON object the marker Nested; a raised           *)
(* exception is reported by its class name.                                *)
(***************************************************************************)
EXTENDS Integers, Sequences, FiniteSets, TLC

VARIABLES config, db, proc, active, last_add, ai, call

vars == <<config, db, proc, active, last_add, ai, call>>

(***************************************************************************)
(* Bounds of the model.                                                    *)
(***************************************************************************)
MaxFiles == 2
MaxFrags == 2
MaxItems == 2

(***************************************************************************)
(* Markers.                                                                *)
(***************************************************************************)
Null == "<null>"
NoError == "<none>"
Raise == "<raise>"
\* a JSON object as the value of a member: a Python dict
Nested == "<object>"

(***************************************************************************)
(* Python string primitives.                                               *)
(***************************************************************************)
Min(a, b) == IF a < b THEN a ELSE b

UpperAlpha == "ABCDEFGHIJKLMNOPQRSTUVWXYZ"
LowerAlpha == "abcdefghijklmnopqrstuvwxyz"

CharAt(s, i) == SubSeq(s, i, i)

LowerChar(c) ==
    IF \E i \in 1..Len(UpperAlpha) : CharAt(UpperAlpha, i) = c
    THEN CharAt(LowerAlpha, CHOOSE i \in 1..Len(UpperAlpha) : CharAt(UpperAlpha, i) = c)
    ELSE c

RECURSIVE Lower(_)
Lower(s) ==
    IF Len(s) = 0 THEN ""
    ELSE LowerChar(CharAt(s, 1)) \o Lower(SubSeq(s, 2, Len(s)))

\* k in s
Contains(s, k) ==
    \E i \in 1..(Len(s) - Len(k) + 1) : SubSeq(s, i, i + Len(k) - 1) = k

\* s[:n]
Prefix(s, n) == SubSeq(s, 1, Min(n, Len(s)))

\* s[n:]
Suffix(s, n) == IF n >= Len(s) THEN "" ELSE SubSeq(s, n + 1, Len(s))

Whitespace == {" ", "\t", "\n", "\r"}

RECURSIVE LStripChars(_, _)
LStripChars(s, cs) ==
    IF Len(s) > 0 /\ CharAt(s, 1) \in cs
    THEN LStripChars(SubSeq(s, 2, Len(s)), cs)
    ELSE s

RECURSIVE RStripChars(_, _)
RStripChars(s, cs) ==
    IF Len(s) > 0 /\ CharAt(s, Len(s)) \in cs
    THEN RStripChars(SubSeq(s, 1, Len(s) - 1), cs)
    ELSE s

\* s.strip(cs); s.strip() when cs is Whitespace
StripChars(s, cs) == RStripChars(LStripChars(s, cs), cs)

\* s.split(tok)[0]
SplitFirst(s, tok) ==
    IF Contains(s, tok)
    THEN LET i == CHOOSE j \in 1..(Len(s) - Len(tok) + 1) :
                      /\ SubSeq(s, j, j + Len(tok) - 1) = tok
                      /\ \A h \in 1..(j - 1) : SubSeq(s, h, h + Len(tok) - 1) # tok
         IN  SubSeq(s, 1, i - 1)
    ELSE s

\* os.path.basename(p)
RECURSIVE Basename(_)
Basename(p) ==
    IF Contains(p, "/")
    THEN Basename(SubSeq(p, (CHOOSE j \in 1..Len(p) : CharAt(p, j) = "/") + 1, Len(p)))
    ELSE p

(***************************************************************************)
(* ai_service.py: MockAIService.                                           *)
(***************************************************************************)
Keywords1 == {"bird strike", "damage", "fire"}
Keywords2 == {"engine", "hydraulic", "apu", "pressure", "vibration"}
Keywords3 == {"landing gear", "tire", "brakes", "slats"}
Keywords4 == {"nav", "display", "autopilot", "fms", "sensor", "avionics", "radio"}
Keywords5 == {"weather", "turbulence", "wind shear", "gusts", "storm"}
Keywords6 == {"pilot", "co-pilot", "crew", "atc", "checklist", "disagreement"}

\* any(keyword in text_lower for keyword in kws)
AnyKeyword(text_lower, kws) == \E keyword \in kws : Contains(text_lower, keyword)

SummaryPrefixLen == 50
MockProcessingTimeMs == 150

\* the chain with its first two branches in the other order
MockClassify_MechanicalFirst(text_lower) ==
    IF AnyKeyword(text_lower, Keywords2)
    THEN [category |-> "Mechanical", severity |-> "high",
          recommendation |-> "Immediate maintenance check required."]
    ELSE IF AnyKeyword(text_lower, Keywords1)
    THEN [category |-> "Critical Failure", severity |-> "critical",
          recommendation |-> "Ground the aircraft. Full engineering review required."]
    ELSE IF AnyKeyword(text_lower, Keywords3)
    THEN [category |-> "Flight Controls", severity |-> "high",
          recommendation |-> "Inspect relevant flight control systems before next flight."]
    ELSE IF AnyKeyword(text_lower, Keywords4)
    THEN [category |-> "Avionics", severity |-> "medium",
          recommendation |-> "Schedule maintenance for the avionics system."]
    ELSE IF AnyKeyword(text_lower, Keywords5)
    THEN [category |-> "Weather", severity |-> "medium",
          recommendation |-> "Review flight plan and weather briefings."]
    ELSE IF AnyKeyword(text_lower, Keywords6)
    THEN [category |-> "Human Factors", severity |-> "low",
          recommendation |-> "Add to next training session for crew resource management."]
    ELSE [category |-> "General", severity |-> "low",
          recommendation |-> "Monitor closely."]

\* the if / elif chain of MockAIService.process_text
MockClassify(text_lower) ==
    IF AnyKeyword(text_lower, Keywords1)
    THEN [category |-> "Critical Failure", severity |-> "critical",
          recommendation |-> "Ground the aircraft. Full engineering review required."]
    ELSE IF AnyKeyword(text_lower, Keywords2)
    THEN [category |-> "Mechanical", severity |-> "high",
          recommendation |-> "Immediate maintenance check required."]
    ELSE IF AnyKeyword(text_lower, Keywords3)
    THEN [category |-> "Flight Controls", severity |-> "high",
          recommendation |-> "Inspect relevant flight control systems before next flight."]
    ELSE IF AnyKeyword(text_lower, Keywords4)
    THEN [category |-> "Avionics", severity |-> "medium",
          recommendation |-> "Schedule maintenance for the avionics system."]
    ELSE IF AnyKeyword(text_lower, Keywords5)
    THEN [category |-> "Weather", severity |-> "medium",
          recommendation |-> "Review flight plan and weather briefings."]
    ELSE IF AnyKeyword(text_lower, Keywords6)
    THEN [category |-> "Human Factors", severity |-> "low",
          recommendation |-> "Add to next training session for crew resource management."]
    ELSE [category |-> "General", severity |-> "low",
          recommendation |-> "Monitor closely."]

\* MockAIService.process_text(raw_event_text); of model_meta, the capture
\* time (time.time()) is left out
MockProcessText(raw_event_text) ==
    LET text_lower == Lower(raw_event_text)
        cls == MockClassify(text_lower)
    IN  [summary |-> "Event involving: " \o Prefix(raw_event_text, SummaryPrefixLen) \o "...",
         category |-> cls.category,
         severity |-> cls.severity,
         recommendation |-> cls.recommendation,
         model_meta |-> [model_name |-> "MockAI-Rule-Based-v2.1",
                         processing_time_ms |-> MockProcessingTimeMs]]

(***************************************************************************)
(* ai_service.py: HuggingFaceAIService.  The four pipelines are external   *)
(* models: one call's behaviour is a record out with, per sub-model,       *)
(* either Raise or what the pipeline returns (the top label of a           *)
(* classifier, the text a generator appends to the echoed prompt).         *)
(***************************************************************************)
StopToken == "<|endofassistant|>"

\* the instance's configuration, as get_ai_service passes it
event_categories == {"Mechanical", "Weather"}
severity_levels == {"low", "critical"}
summary_prompt_template == "Summarize: "
recommendation_prompt_template == "Recommend for: "
HFModelNames == [summary_model |-> "sum-model", category_model |-> "cat-model",
                 severity_model |-> "sev-model", recommendation_model |-> "rec-model"]

\* HuggingFaceAIService._clean_generated_text(full_output, prompt)
CleanGeneratedText(full_output, prompt) ==
    LET generated_text == StripChars(Suffix(full_output, Len(prompt)), Whitespace)
        cut == IF Contains(generated_text, StopToken)
               THEN StripChars(SplitFirst(generated_text, StopToken), Whitespace)
               ELSE generated_text
    IN  StripChars(StripChars(cut, {"\""}), Whitespace)

\* _get_category / _get_severity: labels[0] of the classifier, or its fault
GetCategory(raw_event_text, out) == out.category
GetSeverity(raw_event_text, out) == out.severity

\* _generate_summary
GenerateSummary(raw_event_text, out) ==
    IF out.summary = Raise THEN Raise
    ELSE LET prompt == summary_prompt_template \o raw_event_text
             summary == CleanGeneratedText(prompt \o out.summary, prompt)
         IN  IF summary = "" THEN "No summary available." ELSE summary

\* _generate_recommendation
GenerateRecommendation(raw_event_text, category, severity, out) ==
    IF out.recommendation = Raise THEN Raise
    ELSE LET prompt == recommendation_prompt_template \o raw_event_text
             recommendation == CleanGeneratedText(prompt \o out.recommendation, prompt)
         IN  IF recommendation = "" THEN "No recommendation available." ELSE recommendation

\* the except branch of HuggingFaceAIService.process_text; e is str(e)
HFDegraded(e) ==
    [summary |-> "AI processing failed.", category |-> "Unknown", severity |-> "Unknown",
     recommendation |-> "Manual review required.", model_meta |-> [error |-> e]]

\* a body that runs all four sub-calls before it looks at any fault
HFTryBody_AllStages(raw_event_text, out) ==
    LET category == GetCategory(raw_event_text, out)
        severity == GetSeverity(raw_event_text, out)
        summary == GenerateSummary(raw_event_text, out)
        recommendation == GenerateRecommendation(raw_event_text, category, severity, out)
        calls == <<[stage |-> "category", text |-> raw_event_text],
                   [stage |-> "severity", text |-> raw_event_text],
                   [stage |-> "summary", text |-> raw_event_text],
                   [stage |-> "recommendation", text |-> raw_event_text,
                    category |-> category, severity |-> severity]>>
    IN  IF category = Raise THEN [raised |-> "category model failed", calls |-> calls]
        ELSE IF severity = Raise THEN [raised |-> "severity model failed", calls |-> calls]
        ELSE IF summary = Raise THEN [raised |-> "summary model failed", calls |-> calls]
        ELSE IF recommendation = Raise
        THEN [raised |-> "recommendation model failed", calls |-> calls]
        ELSE [raised |-> NoError, calls |-> calls,
              category |-> category, severity |-> severity,
              summary |-> summary, recommendation |-> recommendation]

\* the try block of HuggingFaceAIService.process_text: the four sub-calls in
\* sequence; raised is str(e) of the exception that ends the block, calls
\* the sub-model invocations made
HFTryBody(raw_event_text, out) ==
    LET category == GetCategory(raw_event_text, out)
        c1 == <<[stage |-> "category", text |-> raw_event_text]>>
    IN
    IF category = Raise
    THEN [raised |-> "category model failed", calls |-> c1]
    ELSE
    LET severity == GetSeverity(raw_event_text, out)
        c2 == Append(c1, [stage |-> "severity", text |-> raw_event_text])
    IN
    IF severity = Raise
    THEN [raised |-> "severity model failed", calls |-> c2]
    ELSE
    LET summary == GenerateSummary(raw_event_text, out)
        c3 == Append(c2, [stage |-> "summary", text |-> raw_event_text])
    IN
    IF summary = Raise
    THEN [raised |-> "summary model failed", calls |-> c3]
    ELSE
    LET recommendation == GenerateRecommendation(raw_event_text, category, severity, out)
        c4 == Append(c3, [stage |-> "recommendation", text |-> raw_event_text,
                          category |-> category, severity |-> severity])
    IN
    IF recommendation = Raise
    THEN [raised |-> "recommendation model failed", calls |-> c4]
    ELSE [raised |-> NoError, calls |-> c4,
          category |-> category, severity |-> severity,
          summary |-> summary, recommendation |-> recommendation]

\* process_text without its except clause: the fault leaves the method
HFRun_NoExcept(raw_event_text, out) ==
    LET body == HFTryBody(raw_event_text, out)
    IN  IF body.raised # NoError
        THEN [result |-> [summary |-> "", category |-> "", severity |-> "",
                          recommendation |-> "", model_meta |-> [error |-> ""]],
              calls |-> body.calls, raised |-> body.raised]
        ELSE [result |-> [summary |-> body.summary, category |-> body.category,
                          severity |-> body.severity,
                          recommendation |-> body.recommendation,
                          model_meta |-> [summary_model |-> HFModelNames.summary_model,
                                          category_model |-> HFModelNames.category_model,
                                          severity_model |-> HFModelNames.severity_model,
                                          recommendation_model |-> HFModelNames.recommendation_model]],
              calls |-> body.calls, raised |-> NoError]

\* HuggingFaceAIService.process_text: result is the returned dictionary,
\* raised the exception that leaves the method (NoError when it returns);
\* of model_meta, the measured times are left out
HFRun(raw_event_text, out) ==
    LET body == HFTryBody(raw_event_text, out)
    IN  IF body.raised # NoError
        THEN [result |-> HFDegraded(body.raised), calls |-> body.calls, raised |-> NoError]
        ELSE [result |-> [summary |-> body.summary, category |-> body.category,
                          severity |-> body.severity,
                          recommendation |-> body.recommendation,
                          model_meta |-> [summary_model |-> HFModelNames.summary_model,
                                          category_model |-> HFModelNames.category_model,
                                          severity_model |-> HFModelNames.severity_model,
                                          recommendation_model |-> HFModelNames.recommendation_model]],
              calls |-> body.calls, raised |-> NoError]

(***************************************************************************)
(* event_processor.py: parsers.  A file's content is a JSON document:      *)
(* [kind |-> "invalid"] is a text json.load rejects; the members of an     *)
(* object are a function from its keys to strings, Null or Nested.        *)
(***************************************************************************)
JInvalid == [kind |-> "invalid"]
JArray(items) == [kind |-> "array", items |-> items]
JObject(fields) == [kind |-> "object", fields |-> fields]
JString(value) == [kind |-> "string", value |-> value]
JNumber == [kind |-> "number"]
JNull == [kind |-> "null"]

\* dict.get(key, default)
Get(fields, key, default) == IF key \in DOMAIN fields THEN fields[key] ELSE default

\* the body shared by parse_ops_file and parse_tech_file: json.load, then
\* one record per item of the document; raised is the exception class
ParseFile(doc, timestamp_key, text_key) ==
    CASE doc.kind = "invalid" -> [raised |-> "JSONDecodeError", records |-> <<>>]
      [] doc.kind = "array" ->
            IF \E i \in 1..Len(doc.items) : doc.items[i].kind # "object"
            THEN [raised |-> "AttributeError", records |-> <<>>]
            ELSE [raised |-> NoError,
                  records |-> [i \in 1..Len(doc.items) |->
                      [timestamp |-> Get(doc.items[i].fields, timestamp_key, ""),
                       raw_event_text |-> Get(doc.items[i].fields, text_key, "")]]]
      [] doc.kind = "object" ->
            \* iterating a dict yields its keys, which have no .get
            IF DOMAIN doc.fields = {}
            THEN [raised |-> NoError, records |-> <<>>]
            ELSE [raised |-> "AttributeError", records |-> <<>>]
      [] doc.kind = "string" ->
            \* iterating a str yields its characters, which have no .get
            IF Len(doc.value) = 0
            THEN [raised |-> NoError, records |-> <<>>]
            ELSE [raised |-> "AttributeError", records |-> <<>>]
      [] OTHER -> [raised |-> "TypeError", records |-> <<>>]

parse_ops_file(doc) == ParseFile(doc, "flight_date", "observation")
parse_tech_file(doc) == ParseFile(doc, "log_date", "entry")

\* get_parser(file_path): the parser's name, or Raise for the ValueError
get_parser(file_path) ==
    IF Contains(Basename(file_path), "ops") THEN "parse_ops_file"
    ELSE IF Contains(Basename(file_path), "tech") THEN "parse_tech_file"
    ELSE Raise

\* parser = get_parser(file_path); raw_records = parser(file_path)
SelectAndParse(file) ==
    LET parser == get_parser(file.path)
    IN  IF parser = Raise THEN [raised |-> "ValueError", records |-> <<>>]
        ELSE IF parser = "parse_ops_file" THEN parse_ops_file(file.doc)
        ELSE parse_tech_file(file.doc)

\* a filter that lets the empty string through
Falsy_NullOnly(v) == v = Null

\* not record["raw_event_text"]
Falsy(v) == v = "" \/ v = Null

(***************************************************************************)
(* database_handler.py: SQLiteHandler over its storage target.  db is the  *)
(* target: a file that may not exist, or exist with or without the         *)
(* flight_reports table, or ":memory:", where every connection opens a     *)
(* new empty database.                                                     *)
(***************************************************************************)
\* what a connection from _get_connection sees
TableVisible(d) == d.target = "file" /\ d.file_exists /\ d.has_table

\* SQLiteHandler.__init__ / _ensure_db_initialized on a new instance
EnsureDbInitialized(d) ==
    IF d.target = "file" /\ ~d.file_exists
    THEN [d EXCEPT !.file_exists = TRUE, !.has_table = TRUE, !.rows = {}]
    ELSE d

\* the table without UNIQUE(timestamp, raw_event_text)
ViolatesConstraint_NoUniquePair(rows, report) ==
    \/ report.timestamp = Null
    \/ report.source = Null
    \/ report.raw_event_text = Null
    \/ \E r \in rows : r.id = report.id

\* the constraints of CREATE TABLE flight_reports that an INSERT can violate
ViolatesConstraint(rows, report) ==
    \/ report.timestamp = Null
    \/ report.source = Null
    \/ report.raw_event_text = Null
    \/ \E r \in rows : r.id = report.id
    \/ \E r \in rows : /\ r.timestamp = report.timestamp
                       /\ r.raw_event_text = report.raw_event_text

\* INSERT OR REPLACE in place of INSERT: the conflicting rows give way
add_event_Replace(d, report) ==
    IF ~TableVisible(d)
    THEN [db |-> d, raised |-> "OperationalError"]
    ELSE IF report.timestamp = Null \/ report.source = Null \/ report.raw_event_text = Null
    THEN [db |-> d, raised |-> NoError]
    ELSE [db |-> [d EXCEPT !.rows =
                    {r \in @ : r.id # report.id /\ ~(/\ r.timestamp = report.timestamp
                                                     /\ r.raw_event_text = report.raw_event_text)}
                    \cup {report}],
          raised |-> NoError]

\* an add_event without its except clause: the IntegrityError leaves it
add_event_Propagate(d, report) ==
    IF ~TableVisible(d)
    THEN [db |-> d, raised |-> "OperationalError"]
    ELSE IF ViolatesConstraint(d.rows, report)
    THEN [db |-> d, raised |-> "IntegrityError"]
    ELSE [db |-> [d EXCEPT !.rows = @ \cup {report}], raised |-> NoError]

\* SQLiteHandler.add_event(report): sqlite3.IntegrityError is swallowed,
\* any other error leaves the method
add_event(d, report) ==
    IF ~TableVisible(d)
    THEN [db |-> d, raised |-> "OperationalError"]
    ELSE IF ViolatesConstraint(d.rows, report)
    THEN [db |-> d, raised |-> NoError]
    ELSE [db |-> [d EXCEPT !.rows = @ \cup {report}], raised |-> NoError]

\* an existence check that never finds the report
report_exists_NeverFound(d, timestamp, raw_event_text) ==
    IF ~TableVisible(d)
    THEN [result |-> FALSE, raised |-> "OperationalError"]
    ELSE [result |-> FALSE, raised |-> NoError]

\* an existence check that passes over the Reports of a failed enrichment,
\* so that they are enriched anew
report_exists_SkipsDegraded(d, timestamp, raw_event_text) ==
    IF ~TableVisible(d)
    THEN [result |-> FALSE, raised |-> "OperationalError"]
    ELSE IF timestamp = Nested \/ raw_event_text = Nested
    THEN [result |-> FALSE, raised |-> "ProgrammingError"]
    ELSE [result |-> /\ timestamp # Null
                     /\ raw_event_text # Null
                     /\ \E r \in d.rows : /\ r.timestamp = timestamp
                                          /\ r.raw_event_text = raw_event_text
                                          /\ r.category # "Unknown",
          raised |-> NoError]

\* SQLiteHandler.report_exists(timestamp, raw_event_text); a dict cannot be
\* bound to a parameter, and in SQL a comparison with NULL is never true
report_exists(d, timestamp, raw_event_text) ==
    IF ~TableVisible(d)
    THEN [result |-> FALSE, raised |-> "OperationalError"]
    ELSE IF timestamp = Nested \/ raw_event_text = Nested
    THEN [result |-> FALSE, raised |-> "ProgrammingError"]
    ELSE [result |-> /\ timestamp # Null
                     /\ raw_event_text # Null
                     /\ \E r \in d.rows : /\ r.timestamp = timestamp
                                          /\ r.raw_event_text = raw_event_text,
          raised |-> NoError]

\* an init_db that drops the table and creates it anew
init_db_Recreate(d, initialized) ==
    IF d.target = "file"
    THEN [d EXCEPT !.file_exists = TRUE, !.has_table = TRUE, !.rows = {}]
    ELSE d

\* SQLiteHandler.init_db() on an instance whose _initialized flag is
\* initialized: nothing when the file exists, else _ensure_db_initialized,
\* which returns at once when the flag is set
init_db(d, initialized) ==
    IF d.target = "file" /\ d.file_exists THEN d
    ELSE IF initialized THEN d
    ELSE EnsureDbInitialized(d)

\* SQLiteHandler.get_stats_by_category(): the count of each category
get_stats_by_category(d) ==
    IF ~TableVisible(d)
    THEN [result |-> <<>>, raised |-> "OperationalError"]
    ELSE [result |-> [c \in {r.category : r \in d.rows} |->
                          Cardinality({r \in d.rows : r.category = c})],
          raised |-> NoError]

\* SQLiteHandler.list_reports_by_severity(severity): five columns of the
\* matching rows (the query has no ORDER BY: a set)
list_reports_by_severity(d, severity) ==
    IF ~TableVisible(d)
    THEN [result |-> {}, raised |-> "OperationalError"]
    ELSE [result |-> {[id |-> r.id, timestamp |-> r.timestamp, category |-> r.category,
                       summary |-> r.summary, recommendation |-> r.recommendation] :
                          r \in {q \in d.rows : q.severity = severity}},
          raised |-> NoError]

\* SQLiteHandler.get_report_by_id(report_id): the set holding the row found,
\* empty for None
get_report_by_id(d, report_id) ==
    IF ~TableVisible(d)
    THEN [result |-> {}, raised |-> "OperationalError"]
    ELSE [result |-> {r \in d.rows : r.id = report_id}, raised |-> NoError]

(***************************************************************************)
(* Inputs: the files an ingestion can be given, the sub-model behaviours   *)
(* and the reports of a direct caller of add_event.                        *)
(***************************************************************************)
ItemA == JObject([flight_date |-> "2025-07-20", observation |-> "Engine running rough"])
ItemB == JObject([flight_date |-> "2025-07-21", observation |-> "Pilot missed a checklist item during the approach briefing"])
ItemNoText == JObject([flight_date |-> "2025-07-20"])
ItemNullDate == JObject([flight_date |-> Null, observation |-> "Engine running rough"])
ItemTech == JObject([log_date |-> "2025-07-20", entry |-> "Engine running rough"])
ItemNested == JObject([flight_date |-> "2025-07-20", observation |-> Nested])

FilePool ==
    { [path |-> "in/event_ops.json", doc |-> JArray(<<ItemA, ItemNoText, ItemB, ItemB>>)],
      [path |-> "ops_nulldate.json", doc |-> JArray(<<ItemNullDate>>)],
      [path |-> "event_tech.json", doc |-> JArray(<<ItemTech>>)],
      [path |-> "ops_bad.json", doc |-> JInvalid],
      [path |-> "ops_nested.json", doc |-> JArray(<<ItemNested, ItemB>>)],
      [path |-> "ops/notes.json", doc |-> JArray(<<ItemA>>)] }

RECURSIVE SeqsUpTo(_, _)
SeqsUpTo(S, n) ==
    IF n = 0 THEN {<<>>}
    ELSE LET shorter == SeqsUpTo(S, n - 1)
         IN  shorter \cup {Append(q, x) : q \in {t \in shorter : Len(t) = n - 1}, x \in S}

\* ingest refuses an empty list of files
Batches == SeqsUpTo(FilePool, MaxFiles) \ {<<>>}

Services == {"mock", "huggingface"}

\* what the four sub-models do in one process_text call made by an ingestion
IngestOutcomes ==
    { [category |-> "Mechanical", severity |-> "low",
       summary |-> " Rough engine. " \o StopToken, recommendation |-> " \"Check it\""],
      [category |-> Raise, severity |-> "low",
       summary |-> " Rough engine. " \o StopToken, recommendation |-> " \"Check it\""],
      [category |-> "Mechanical", severity |-> "low",
       summary |-> "", recommendation |-> Raise] }

\* the reports a direct caller of add_event passes
DirectReports(ids) ==
    [id : ids,
     timestamp : {"2025-07-20", Null},
     source : {"test.json"},
     raw_event_text : {"Engine running rough"},
     summary : {"S"}, category : {"C"}, severity : {"low"}, recommendation : {"R"},
     model_meta : {[model |-> "test_model"]}]

\* the (timestamp, raw_event_text) pairs a direct caller asks about
QueryPairs ==
    [timestamp : {"2025-07-20", "2025-07-21", Null}, raw_event_text : {"Engine running rough"}]

\* the severities a caller lists by, one of them stored by no rule
QuerySeverities == {"high", "Unknown"}

\* command lines: stat types, --severity values, the files of an ingest
StatTypes == {"category", "severity"}
SeverityChoices == {"low", "medium", "high", "critical"}
SeverityArgs == {"high", "HIGH", "urgent"}
IngestArgs == {<<>>} \cup {<<file>> : file \in {f \in FilePool : f.path = "in/event_ops.json"}}

(***************************************************************************)
(* State.                                                                  *)
(*   config   config.yaml: the enrichment service the factory selects      *)
(*   db       the storage target of the configured SQLiteHandler           *)
(*   proc[p]  the frame of process p's process_and_store_files call        *)
(*   active   the processes that run                                       *)
(*   last_add the direct add_event call just made and the store around it  *)
(*   ai       one process_text call observed in isolation                  *)
(*   call     the query, command or parser call just made, and its result  *)
(***************************************************************************)
Procs == {1, 2}

NoResult == [summary |-> "", category |-> "", severity |-> "", recommendation |-> "",
             model_meta |-> [error |-> ""]]

IdleProc ==
    [pc |-> "idle", file_paths |-> <<>>, nargs |-> 0,
     file_idx |-> 0, raw_records |-> <<>>, rec_idx |-> 0, ai_results |-> NoResult,
     total_new_records |-> 0, reported |-> -1, raised |-> NoError,
     trace |-> <<>>, outcomes |-> <<>>, start_rows |-> {}, end_rows |-> {},
     rerun |-> FALSE, last_file_paths |-> <<>>, last_end_rows |-> {}]

NoAdd == [called |-> FALSE]
NoAI == [pc |-> "off"]
NoCall == [op |-> "none"]

DbTargets ==
    { [target |-> ":memory:", file_exists |-> FALSE, has_table |-> FALSE, rows |-> {}],
      [target |-> "file", file_exists |-> FALSE, has_table |-> FALSE, rows |-> {}],
      [target |-> "file", file_exists |-> TRUE, has_table |-> FALSE, rows |-> {}],
      [target |-> "file", file_exists |-> TRUE, has_table |-> TRUE, rows |-> {}] }

Init ==
    /\ config \in [active_service : Services]
    /\ db \in DbTargets
    /\ active = {1}
    /\ proc = [p \in Procs |-> IdleProc]
    /\ last_add = NoAdd
    /\ ai = NoAI
    /\ call = NoCall

\* str(uuid.uuid4()): an id that no stored report has
FreshId(rows) == CHOOSE n \in 1..(Cardinality(rows) + 1) : \A r \in rows : r.id # n

(***************************************************************************)
(* event_processor.py: process_and_store_files, one action per step of     *)
(* its loops.  trace records, for the current call, every record reached   *)
(* and every call made on the handler and on the enrichment service.       *)
(***************************************************************************)
CurFile(f) == f.file_paths[f.file_idx]

\* a loop that walks the parsed records from the last to the first
CurRecord_Reversed(f) == f.raw_records[Len(f.raw_records) + 1 - f.rec_idx]

CurRecord(f) == f.raw_records[f.rec_idx]

\* an except clause outside the for loop: the first failing file ends the batch
FailFile_AbortBatch(f, cls) ==
    [f EXCEPT !.outcomes = Append(@, cls), !.file_idx = Len(f.file_paths) + 1, !.pc = "file"]

\* except Exception as e: logging.error(...); the for loop goes on
FailFile(f, cls) ==
    [f EXCEPT !.outcomes = Append(@, cls), !.file_idx = @ + 1, !.pc = "file"]

\* the call of a def that has one positional parameter; then the two
\* factories, of which get_database_handler constructs a SQLiteHandler
Begin(p, file_paths, nargs) ==
    /\ p \in active
    /\ proc[p].pc = "idle"
    /\ LET f == proc[p]
           frame == [IdleProc EXCEPT !.file_paths = file_paths, !.nargs = nargs]
       IN  IF nargs # 1
           THEN /\ proc' = [proc EXCEPT ![p] =
                                [frame EXCEPT !.pc = "done", !.raised = "TypeError",
                                              !.start_rows = db.rows, !.end_rows = db.rows]]
                /\ db' = db
           ELSE LET d == EnsureDbInitialized(db)
                IN  /\ db' = d
                    /\ proc' = [proc EXCEPT ![p] =
                                    [frame EXCEPT !.pc = "file", !.file_idx = 1,
                                                  !.start_rows = d.rows,
                                                  !.rerun = /\ f.last_file_paths = file_paths
                                                            /\ f.last_end_rows = d.rows]]
    /\ last_add' = NoAdd
    /\ call' = NoCall
    /\ UNCHANGED <<config, active, ai>>

\* for file_path in file_paths: get_parser, parser(file_path)
SelectFile(p) ==
    /\ p \in active
    /\ proc[p].pc = "file"
    /\ proc[p].file_idx <= Len(proc[p].file_paths)
    /\ LET f == proc[p]
           parsed == SelectAndParse(CurFile(f))
       IN  proc' = [proc EXCEPT ![p] =
                IF parsed.raised # NoError
                THEN FailFile(f, parsed.raised)
                ELSE [f EXCEPT !.raw_records = parsed.records, !.rec_idx = 1, !.pc = "check"]]
    /\ UNCHANGED <<config, db, active, last_add, ai, call>>

\* the head of the record loop: the empty-text filter and report_exists
CheckRecord(p) ==
    /\ p \in active
    /\ proc[p].pc = "check"
    /\ proc[p].rec_idx <= Len(proc[p].raw_records)
    /\ LET f == proc[p]
           record == CurRecord(f)
           reached == [op |-> "record", file_idx |-> f.file_idx, rec_idx |-> f.rec_idx,
                       timestamp |-> record.timestamp,
                       raw_event_text |-> record.raw_event_text,
                       in_store |-> \E r \in db.rows :
                                       /\ r.timestamp = record.timestamp
                                       /\ r.raw_event_text = record.raw_event_text]
           exists == report_exists(db, record.timestamp, record.raw_event_text)
           asked == [op |-> "report_exists", file_idx |-> f.file_idx, rec_idx |-> f.rec_idx,
                     timestamp |-> record.timestamp,
                     raw_event_text |-> record.raw_event_text,
                     result |-> exists.result, raised |-> exists.raised]
       IN  proc' = [proc EXCEPT ![p] =
                IF Falsy(record.raw_event_text)
                THEN [f EXCEPT !.trace = Append(@, reached), !.rec_idx = @ + 1]
                ELSE IF exists.raised # NoError
                THEN [FailFile(f, exists.raised) EXCEPT !.trace = @ \o <<reached, asked>>]
                ELSE IF exists.result
                THEN [f EXCEPT !.trace = @ \o <<reached, asked>>, !.rec_idx = @ + 1]
                ELSE [f EXCEPT !.trace = @ \o <<reached, asked>>, !.pc = "enrich"]]
    /\ UNCHANGED <<config, db, active, last_add, ai, call>>

\* logging.info("Successfully processed ..."): the records of the file are done
EndOfFile(p) ==
    /\ p \in active
    /\ proc[p].pc = "check"
    /\ proc[p].rec_idx > Len(proc[p].raw_records)
    /\ proc' = [proc EXCEPT ![p] =
                    [@ EXCEPT !.outcomes = Append(@, "ok"), !.file_idx = @ + 1, !.pc = "file"]]
    /\ UNCHANGED <<config, db, active, last_add, ai, call>>

\* ai_processor.process_text of the service that get_ai_service selected
ServiceRun(service, raw_event_text, out) ==
    IF service = "mock"
    THEN [result |-> MockProcessText(raw_event_text), raised |-> NoError, calls |-> <<>>]
    ELSE HFRun(raw_event_text, out)

\* the sub-model behaviours that make a difference to the service
OutcomesOf(service, outcomes) ==
    IF service = "mock" THEN {CHOOSE out \in outcomes : TRUE} ELSE outcomes

\* ai_results = ai_processor.process_text(record["raw_event_text"])
Enrich(p) ==
    /\ p \in active
    /\ proc[p].pc = "enrich"
    /\ \E out \in OutcomesOf(config.active_service, IngestOutcomes) :
        LET f == proc[p]
            record == CurRecord(f)
            run == ServiceRun(config.active_service, record.raw_event_text, out)
            called == [op |-> "process_text", file_idx |-> f.file_idx, rec_idx |-> f.rec_idx,
                       raw_event_text |-> record.raw_event_text,
                       result |-> run.result, raised |-> run.raised]
        IN  proc' = [proc EXCEPT ![p] =
                IF run.raised # NoError
                THEN [FailFile(f, run.raised) EXCEPT !.trace = Append(@, called)]
                ELSE [f EXCEPT !.trace = Append(@, called), !.ai_results = run.result,
                               !.pc = "insert"]]
    /\ UNCHANGED <<config, db, active, last_add, ai, call>>

\* a dictionary whose "category" and "severity" values are swapped
NormalizedRecord_SwappedLabels(f, id) ==
    [id |-> id,
     timestamp |-> CurRecord(f).timestamp,
     source |-> Basename(CurFile(f).path),
     raw_event_text |-> CurRecord(f).raw_event_text,
     summary |-> f.ai_results.summary,
     category |-> f.ai_results.severity,
     severity |-> f.ai_results.category,
     recommendation |-> f.ai_results.recommendation,
     model_meta |-> f.ai_results.model_meta]

\* the normalized_record dictionary
NormalizedRecord(f, id) ==
    [id |-> id,
     timestamp |-> CurRecord(f).timestamp,
     source |-> Basename(CurFile(f).path),
     raw_event_text |-> CurRecord(f).raw_event_text,
     summary |-> f.ai_results.summary,
     category |-> f.ai_results.category,
     severity |-> f.ai_results.severity,
     recommendation |-> f.ai_results.recommendation,
     model_meta |-> f.ai_results.model_meta]

\* db_handler.add_event(normalized_record); total_new_records += 1
Insert(p) ==
    /\ p \in active
    /\ proc[p].pc = "insert"
    /\ LET f == proc[p]
           normalized_record == NormalizedRecord(f, FreshId(db.rows))
           added == add_event(db, normalized_record)
           called == [op |-> "add_event", file_idx |-> f.file_idx, rec_idx |-> f.rec_idx,
                      report |-> normalized_record, raised |-> added.raised,
                      stored |-> added.db.rows # db.rows]
       IN  /\ db' = added.db
           /\ proc' = [proc EXCEPT ![p] =
                IF added.raised # NoError
                THEN [FailFile(f, added.raised) EXCEPT !.trace = Append(@, called)]
                ELSE [f EXCEPT !.trace = Append(@, called),
                               !.total_new_records = @ + 1,
                               !.rec_idx = @ + 1, !.pc = "check"]]
    /\ UNCHANGED <<config, active, last_add, ai, call>>

\* logging.info("Ingestion complete. Added N new records ...")
Finish(p) ==
    /\ p \in active
    /\ proc[p].pc = "file"
    /\ proc[p].file_idx > Len(proc[p].file_paths)
    /\ proc' = [proc EXCEPT ![p] =
                    [@ EXCEPT !.reported = proc[p].total_new_records,
                              !.end_rows = db.rows, !.pc = "done"]]
    /\ UNCHANGED <<config, db, active, last_add, ai, call>>

\* the call returns (or its exception leaves it); the caller keeps in mind
\* the last single file it had ingested and the store that call left
Return(p) ==
    /\ p \in active
    /\ proc[p].pc = "done"
    /\ LET f == proc[p]
           single == f.nargs = 1 /\ Len(f.file_paths) = 1
       IN  proc' = [proc EXCEPT ![p] =
                [IdleProc EXCEPT !.last_file_paths = IF single THEN f.file_paths ELSE <<>>,
                                 !.last_end_rows = IF single THEN f.end_rows ELSE {}]]
    /\ UNCHANGED <<config, db, active, last_add, ai, call>>

\* a caller outside the orchestrator: SQLiteHandler(db_file).add_event(report)
AddEvent(report) ==
    /\ \A p \in Procs : proc[p].pc = "idle"
    /\ LET d == EnsureDbInitialized(db)
           added == add_event(d, report)
       IN  /\ db' = added.db
           /\ last_add' = [called |-> TRUE, report |-> report, before |-> d.rows,
                           after |-> added.db.rows, raised |-> added.raised]
    /\ call' = NoCall
    /\ UNCHANGED <<config, proc, active, ai>>

\* the frames when an operation other than an ingestion is run: no call is
\* under way, and the next ingestion does not follow another directly
Bystanders == [p \in Procs |-> IdleProc]

\* a caller outside the orchestrator: SQLiteHandler(db_file).report_exists(...)
ReportExists(timestamp, raw_event_text) ==
    /\ \A p \in Procs : proc[p].pc = "idle"
    /\ LET d == EnsureDbInitialized(db)
           exists == report_exists(d, timestamp, raw_event_text)
       IN  /\ db' = d
           /\ call' = [op |-> "report_exists", timestamp |-> timestamp,
                       raw_event_text |-> raw_event_text,
                       result |-> exists.result, raised |-> exists.raised]
    /\ last_add' = NoAdd
    /\ proc' = Bystanders
    /\ UNCHANGED <<config, active, ai>>

\* SQLiteHandler(db_file).get_stats_by_category()
GetStatsByCategory ==
    /\ \A p \in Procs : proc[p].pc = "idle"
    /\ LET d == EnsureDbInitialized(db)
           stats == get_stats_by_category(d)
       IN  /\ db' = d
           /\ call' = [op |-> "get_stats_by_category",
                       result |-> stats.result, raised |-> stats.raised]
    /\ last_add' = NoAdd
    /\ proc' = Bystanders
    /\ UNCHANGED <<config, active, ai>>

\* SQLiteHandler(db_file).list_reports_by_severity(severity)
ListReportsBySeverity(severity) ==
    /\ \A p \in Procs : proc[p].pc = "idle"
    /\ LET d == EnsureDbInitialized(db)
           listed == list_reports_by_severity(d, severity)
       IN  /\ db' = d
           /\ call' = [op |-> "list_reports_by_severity", severity |-> severity,
                       result |-> listed.result, raised |-> listed.raised]
    /\ last_add' = NoAdd
    /\ proc' = Bystanders
    /\ UNCHANGED <<config, active, ai>>

\* SQLiteHandler(db_file).get_report_by_id(report_id)
GetReportById(report_id) ==
    /\ \A p \in Procs : proc[p].pc = "idle"
    /\ LET d == EnsureDbInitialized(db)
           got == get_report_by_id(d, report_id)
       IN  /\ db' = d
           /\ call' = [op |-> "get_report_by_id", report_id |-> report_id,
                       result |-> got.result, raised |-> got.raised]
    /\ last_add' = NoAdd
    /\ proc' = Bystanders
    /\ UNCHANGED <<config, active, ai>>

\* SQLiteHandler(db_file).init_db(): the constructor has set _initialized
InitDb ==
    /\ \A p \in Procs : proc[p].pc = "idle"
    /\ db' = init_db(EnsureDbInitialized(db), TRUE)
    /\ call' = [op |-> "init_db", before |-> db.rows, raised |-> NoError]
    /\ last_add' = NoAdd
    /\ proc' = Bystanders
    /\ UNCHANGED <<config, active, ai>>

(***************************************************************************)
(* cli.py: one action per command.  The group callback builds AppContext,  *)
(* which constructs the SQLiteHandler, before the command's own arguments  *)
(* are parsed.  The process exits with 2 when click rejects the arguments, *)
(* with 1 when an exception leaves the command and with 0 when it returns. *)
(***************************************************************************)
ExitStatus(usage_error, raised) ==
    IF usage_error THEN 2 ELSE IF raised # NoError THEN 1 ELSE 0

CliResult(command, arg, usage_error, raised, stderr) ==
    [op |-> "cli", command |-> command, arg |-> arg, usage_error |-> usage_error,
     raised |-> raised, stderr |-> stderr, exit_code |-> ExitStatus(usage_error, raised)]

\* init
CliInit ==
    /\ \A p \in Procs : proc[p].pc = "idle"
    /\ db' = init_db(EnsureDbInitialized(db), TRUE)
    /\ call' = CliResult("init", "", FALSE, NoError, "")
    /\ last_add' = NoAdd
    /\ proc' = Bystanders
    /\ UNCHANGED <<config, active, ai>>

\* ingest FILES...: click.Path(exists=True) rejects a path that does not
\* exist; the call passes three arguments to a function of one parameter
CliIngest(files, paths_exist) ==
    /\ \A p \in Procs : proc[p].pc = "idle"
    /\ db' = EnsureDbInitialized(db)
    /\ call' = IF files # <<>> /\ ~paths_exist
               THEN CliResult("ingest", files, TRUE, NoError, "Error: Invalid value for 'FILES...'")
               ELSE IF files = <<>>
               THEN CliResult("ingest", files, FALSE, NoError,
                              "Error: Please provide at least one file path.")
               ELSE CliResult("ingest", files, FALSE, "TypeError", "")
    /\ last_add' = NoAdd
    /\ proc' = Bystanders
    /\ UNCHANGED <<config, active, ai>>

\* stats QUERY_TYPE
CliStats(query_type) ==
    /\ \A p \in Procs : proc[p].pc = "idle"
    /\ LET d == EnsureDbInitialized(db)
           stats == get_stats_by_category(d)
       IN  /\ db' = d
           /\ call' = IF query_type = "category"
                      THEN CliResult("stats", query_type, FALSE, stats.raised, "")
                      ELSE CliResult("stats", query_type, FALSE, NoError,
                                     "Unknown stat type: " \o query_type)
    /\ last_add' = NoAdd
    /\ proc' = Bystanders
    /\ UNCHANGED <<config, active, ai>>

\* list --severity SEVERITY: a click.Choice that ignores case
CliList(severity) ==
    /\ \A p \in Procs : proc[p].pc = "idle"
    /\ LET d == EnsureDbInitialized(db)
           listed == list_reports_by_severity(d, Lower(severity))
       IN  /\ db' = d
           /\ call' = IF Lower(severity) \notin SeverityChoices
                      THEN CliResult("list", severity, TRUE, NoError,
                                     "Error: Invalid value for '--severity'")
                      ELSE CliResult("list", severity, FALSE, listed.raised, "")
    /\ last_add' = NoAdd
    /\ proc' = Bystanders
    /\ UNCHANGED <<config, active, ai>>

\* show --id ID
CliShow(report_id) ==
    /\ \A p \in Procs : proc[p].pc = "idle"
    /\ LET d == EnsureDbInitialized(db)
           got == get_report_by_id(d, report_id)
       IN  /\ db' = d
           /\ call' = IF got.raised # NoError
                      THEN CliResult("show", report_id, FALSE, got.raised, "")
                      ELSE IF got.result = {}
                      THEN CliResult("show", report_id, FALSE, NoError,
                                     "Error: Report with ID not found.")
                      ELSE CliResult("show", report_id, FALSE, NoError, "")
    /\ last_add' = NoAdd
    /\ proc' = Bystanders
    /\ UNCHANGED <<config, active, ai>>

Next ==
    \/ \E p \in {q \in active : proc[q].pc = "idle"} :
          \E file_paths \in Batches, nargs \in {1, 3} : Begin(p, file_paths, nargs)
    \/ \E p \in Procs : SelectFile(p)
    \/ \E p \in Procs : CheckRecord(p)
    \/ \E p \in Procs : EndOfFile(p)
    \/ \E p \in Procs : Enrich(p)
    \/ \E p \in Procs : Insert(p)
    \/ \E p \in Procs : Finish(p)
    \/ \E p \in Procs : Return(p)
    \/ \E report \in DirectReports({r.id : r \in db.rows} \cup {FreshId(db.rows)}) :
          AddEvent(report)
    \/ \E pair \in QueryPairs : ReportExists(pair.timestamp, pair.raw_event_text)
    \/ GetStatsByCategory
    \/ \E severity \in QuerySeverities : ListReportsBySeverity(severity)
    \/ \E report_id \in {r.id : r \in db.rows} \cup {FreshId(db.rows)} : GetReportById(report_id)
    \/ InitDb
    \/ CliInit
    \/ \E files \in IngestArgs, paths_exist \in BOOLEAN : CliIngest(files, paths_exist)
    \/ \E query_type \in StatTypes : CliStats(query_type)
    \/ \E severity \in SeverityArgs : CliList(severity)
    \/ \E report_id \in {r.id : r \in db.rows} \cup {FreshId(db.rows)} : CliShow(report_id)

Spec == Init /\ [][Next]_vars

(***************************************************************************)
(* Two ingestion processes at once on one store: each makes a single call  *)
(* on a file of RacePool, files that parse, hold values the store can bind  *)
(* and share a record; their                                               *)
(* report_exists, process_text and add_event steps interleave freely.      *)
(***************************************************************************)
RacePool ==
    {file \in FilePool : /\ SelectAndParse(file).raised = NoError
                         /\ \A i \in 1..Len(SelectAndParse(file).records) :
                               /\ SelectAndParse(file).records[i].timestamp # Null
                               /\ SelectAndParse(file).records[i].raw_event_text # Nested}

RaceBatches == {<<file>> : file \in RacePool}

InitRace ==
    /\ config \in [active_service : Services]
    /\ db \in {d \in DbTargets : TableVisible(EnsureDbInitialized(d))}
    /\ active = Procs
    /\ proc = [p \in Procs |-> IdleProc]
    /\ last_add = NoAdd
    /\ ai = NoAI
    /\ call = NoCall

NextRace ==
    \/ \E p \in Procs, file_paths \in RaceBatches : Begin(p, file_paths, 1)
    \/ \E p \in Procs : SelectFile(p)
    \/ \E p \in Procs : CheckRecord(p)
    \/ \E p \in Procs : EndOfFile(p)
    \/ \E p \in Procs : Enrich(p)
    \/ \E p \in Procs : Insert(p)
    \/ \E p \in Procs : Finish(p)

SpecRace == InitRace /\ [][NextRace]_vars

(***************************************************************************)
(* The parsers on their own: parse_ops_file and parse_tech_file applied to *)
(* a file of any JSON content.                                             *)
(***************************************************************************)
\* what an array can hold: objects of either shape and values that are none
ArrayItems ==
    {ItemA, ItemB, ItemNoText, ItemNullDate, ItemTech, ItemNested,
     JString("Engine running rough"), JNumber, JNull}

Documents ==
    {JInvalid, JNull, JNumber, JString(""), JString("Engine running rough"),
     JObject(<<>>), ItemA, ItemTech}
    \cup {JArray(items) : items \in SeqsUpTo(ArrayItems, MaxItems)}

InitParse ==
    /\ config = [active_service |-> "mock"]
    /\ db = [target |-> ":memory:", file_exists |-> FALSE, has_table |-> FALSE, rows |-> {}]
    /\ active = {}
    /\ proc = [p \in Procs |-> IdleProc]
    /\ last_add = NoAdd
    /\ ai = NoAI
    /\ call \in [op : {"parse"}, pc : {"ready"}, doc : Documents]

\* parse_ops_file(file_path) on a file of content call.doc
ParseOps ==
    /\ call.op = "parse"
    /\ call.pc = "ready"
    /\ LET parsed == parse_ops_file(call.doc)
       IN  call' = [op |-> "parse", pc |-> "returned", parser |-> "parse_ops_file",
                    doc |-> call.doc, raised |-> parsed.raised, records |-> parsed.records]
    /\ UNCHANGED <<config, db, proc, active, last_add, ai>>

\* parse_tech_file(file_path) on a file of content call.doc
ParseTech ==
    /\ call.op = "parse"
    /\ call.pc = "ready"
    /\ LET parsed == parse_tech_file(call.doc)
       IN  call' = [op |-> "parse", pc |-> "returned", parser |-> "parse_tech_file",
                    doc |-> call.doc, raised |-> parsed.raised, records |-> parsed.records]
    /\ UNCHANGED <<config, db, proc, active, last_add, ai>>

NextParse ==
    \/ ParseOps
    \/ ParseTech

SpecParse == InitParse /\ [][NextParse]_vars

(***************************************************************************)
(* The enrichment services on their own: process_text applied to a text,   *)
(* for the model-backed service under every behaviour of its sub-models.   *)
(***************************************************************************)
Fragments ==
    {"Bird strike", " near ENGINE", "entire", "Autopilot", "NAV", "storm", "co-pilot", " ok "}

RECURSIVE TextsUpTo(_)
TextsUpTo(n) ==
    IF n = 0 THEN {""}
    ELSE TextsUpTo(n - 1) \cup {t \o g : t \in TextsUpTo(n - 1), g \in Fragments}

Texts == TextsUpTo(MaxFrags)

Completions == {"", " Mocked Response " \o StopToken, " \"Quoted\" ", StopToken \o " tail"}

HFOutcomes ==
    [category : event_categories \cup {Raise},
     severity : severity_levels \cup {Raise},
     summary : Completions \cup {Raise},
     recommendation : Completions \cup {Raise}]

InitAI ==
    /\ config = [active_service |-> "mock"]
    /\ db = [target |-> ":memory:", file_exists |-> FALSE, has_table |-> FALSE, rows |-> {}]
    /\ active = {}
    /\ proc = [p \in Procs |-> IdleProc]
    /\ last_add = NoAdd
    /\ ai \in [pc : {"ready"}, text : Texts]
    /\ call = NoCall

\* MockAIService().process_text(text)
AICallMock ==
    /\ ai.pc = "ready"
    /\ LET run == ServiceRun("mock", ai.text, CHOOSE out \in HFOutcomes : TRUE)
       IN  ai' = [pc |-> "returned", service |-> "mock", text |-> ai.text,
                  result |-> run.result, raised |-> run.raised, calls |-> run.calls]
    /\ UNCHANGED <<config, db, proc, active, last_add, call>>

\* HuggingFaceAIService(...).process_text(text) while the sub-models behave as out
AICallHuggingFace(out) ==
    /\ ai.pc = "ready"
    /\ LET run == ServiceRun("huggingface", ai.text, out)
       IN  ai' = [pc |-> "returned", service |-> "huggingface", text |-> ai.text,
                  out |-> out,
                  result |-> run.result, raised |-> run.raised, calls |-> run.calls]
    /\ UNCHANGED <<config, db, proc, active, last_add, call>>

NextAI ==
    \/ AICallMock
    \/ \E out \in HFOutcomes : AICallHuggingFace(out)

SpecAI == InitAI /\ [][NextAI]_vars

(***************************************************************************)
(* Properties.                                                             *)
(***************************************************************************)
SamePair(r, q) == r.timestamp = q.timestamp /\ r.raw_event_text = q.raw_event_text

\* the entries of a call's trace that are about record rec_idx of file file_idx
EntriesOf(f, file_idx, rec_idx, op) ==
    {i \in 1..Len(f.trace) : /\ f.trace[i].op = op
                             /\ f.trace[i].file_idx = file_idx
                             /\ f.trace[i].rec_idx = rec_idx}

Ops(f, op) == {i \in 1..Len(f.trace) : f.trace[i].op = op}

\* the call ran the body of process_and_store_files and has logged its count
Completed(f) == f.pc = "done" /\ f.nargs = 1

\* C1: no two persisted Reports have the same (timestamp, raw_event_text),
\* whatever batches and direct add_event calls came before.
C1_DedupInvariant ==
    \A r, q \in db.rows : SamePair(r, q) => r = q

\* C1 witness: two Reports are stored and a direct add_event has just offered
\* the pair of one of them again, under an id of its own.
C1_Witness ==
    /\ Cardinality(db.rows) >= 2
    /\ last_add.called
    /\ \E r \in last_add.before : SamePair(r, last_add.report) /\ r.id # last_add.report.id

\* C2 (as claimed): a second run on the same file, directly after the first,
\* leaves the set of Reports as it was and reports 0 new records.
C2_RerunAddsNothing ==
    \A p \in active :
        (Completed(proc[p]) /\ proc[p].rerun) =>
            /\ proc[p].end_rows = proc[p].start_rows
            /\ proc[p].reported = 0

\* C3: process_text is invoked for a record only right after report_exists
\* was asked about that record's pair and answered false, and never for a
\* record whose pair is in the store when the record is reached.
C3_EnrichOnlyAfterCheck ==
    \A p \in active :
        LET f == proc[p]
        IN  /\ \A i \in Ops(f, "process_text") :
                /\ i > 1
                /\ f.trace[i - 1].op = "report_exists"
                /\ f.trace[i - 1].file_idx = f.trace[i].file_idx
                /\ f.trace[i - 1].rec_idx = f.trace[i].rec_idx
                /\ f.trace[i - 1].raw_event_text = f.trace[i].raw_event_text
                /\ f.trace[i - 1].raised = NoError
                /\ f.trace[i - 1].result = FALSE
            /\ \A i \in Ops(f, "record") :
                f.trace[i].in_store =>
                    EntriesOf(f, f.trace[i].file_idx, f.trace[i].rec_idx, "process_text") = {}

\* C3 witness: in one call a record was enriched and another, whose pair was
\* already stored, was reached and passed over.
C3_Witness ==
    \E p \in active :
        /\ Completed(proc[p])
        /\ Ops(proc[p], "process_text") # {}
        /\ \E i \in Ops(proc[p], "record") : proc[p].trace[i].in_store

\* a file that get_parser refuses or whose parser fails
BadFile(file) == SelectAndParse(file).raised # NoError

\* C4: a file without parser or that fails to parse never aborts the batch:
\* the call ends without an exception and with every listed file handled, a
\* bad file by its logged error, a good one with its record loop entered
\* and, when it is logged as processed, with every one of its records reached.
C4_BadFileNeverAborts ==
    \A p \in active :
        LET f == proc[p]
        IN  /\ f.nargs = 1 => f.raised = NoError
            /\ Completed(f) =>
                /\ Len(f.outcomes) = Len(f.file_paths)
                /\ \A k \in 1..Len(f.file_paths) :
                    IF BadFile(f.file_paths[k])
                    THEN f.outcomes[k] = SelectAndParse(f.file_paths[k]).raised
                    ELSE /\ Len(SelectAndParse(f.file_paths[k]).records) > 0 =>
                                EntriesOf(f, k, 1, "record") # {}
                         /\ f.outcomes[k] = "ok" =>
                                \A n \in 1..Len(SelectAndParse(f.file_paths[k]).records) :
                                    EntriesOf(f, k, n, "record") # {}

\* C4 witness: a call has ended in which a bad file came first and a record
\* of the file after it was stored.
C4_Witness ==
    \E p \in active :
        /\ Completed(proc[p])
        /\ Len(proc[p].file_paths) = 2
        /\ BadFile(proc[p].file_paths[1])
        /\ \E i \in Ops(proc[p], "add_event") :
              proc[p].trace[i].file_idx = 2 /\ proc[p].trace[i].stored

\* C5 (as claimed): the count logged at the end of a batch is the number of
\* Reports the call added to the store.
C5_CountIsAdded ==
    \A p \in active :
        Completed(proc[p]) =>
            proc[p].reported = Cardinality(proc[p].end_rows) - Cardinality(proc[p].start_rows)

\* the one record of a file that parses to exactly one record
OnlyRecord(file) == SelectAndParse(file).records[1]

HasOneNewRecord(f) ==
    /\ Len(f.file_paths) = 1
    /\ ~BadFile(f.file_paths[1])
    /\ Len(SelectAndParse(f.file_paths[1]).records) = 1
    /\ ~Falsy(OnlyRecord(f.file_paths[1]).raw_event_text)
    /\ \A r \in f.start_rows : ~SamePair(r, OnlyRecord(f.file_paths[1]))

\* C6 (as claimed): called with (file_paths, db_handler, ai_service) on a
\* file of one non-empty, not yet stored record, the call invokes add_event
\* exactly once, with the record's text and the summary and category that
\* process_text returned for it.
C6_ThreeArgumentCallIngests ==
    \A p \in active :
        LET f == proc[p]
        IN  (f.pc = "done" /\ f.nargs = 3 /\ HasOneNewRecord(f)) =>
                /\ Cardinality(Ops(f, "add_event")) = 1
                /\ \A i \in Ops(f, "add_event") :
                    /\ f.trace[i].report.raw_event_text =
                           OnlyRecord(f.file_paths[1]).raw_event_text
                    /\ \E j \in Ops(f, "process_text") :
                          /\ f.trace[j].result.summary = f.trace[i].report.summary
                          /\ f.trace[j].result.category = f.trace[i].report.category

\* C7: a record with empty raw_event_text (a missing text field included)
\* leads to no report_exists, process_text or add_event call, no add_event
\* is ever given an empty text, and the record after it is still reached.
C7_EmptyTextFiltered ==
    \A p \in active :
        LET f == proc[p]
        IN  /\ \A i \in Ops(f, "record") :
                f.trace[i].raw_event_text = "" =>
                    /\ \A op \in {"report_exists", "process_text", "add_event"} :
                          EntriesOf(f, f.trace[i].file_idx, f.trace[i].rec_idx, op) = {}
                    /\ (/\ Completed(f)
                        /\ f.trace[i].rec_idx <
                              Len(SelectAndParse(f.file_paths[f.trace[i].file_idx]).records))
                       => EntriesOf(f, f.trace[i].file_idx, f.trace[i].rec_idx + 1, "record") # {}
            /\ \A i \in Ops(f, "add_event") : f.trace[i].report.raw_event_text # ""

\* C7 witness: a call has ended in which a record without text was reached
\* and the record after it was stored.
C7_Witness ==
    \E p \in active :
        LET f == proc[p]
        IN  /\ Completed(f)
            /\ \E i \in Ops(f, "record"), j \in Ops(f, "add_event") :
                  /\ f.trace[i].raw_event_text = ""
                  /\ f.trace[j].file_idx = f.trace[i].file_idx
                  /\ f.trace[j].rec_idx = f.trace[i].rec_idx + 1
                  /\ f.trace[j].stored

HFStages == <<"category", "severity", "summary", "recommendation">>

SomeStageRaises(out) == \E k \in 1..Len(HFStages) : out[HFStages[k]] = Raise

FirstRaisingStage(out) ==
    HFStages[CHOOSE k \in 1..Len(HFStages) :
                /\ out[HFStages[k]] = Raise
                /\ \A h \in 1..(k - 1) : out[HFStages[h]] # Raise]

\* C8: HuggingFaceAIService.process_text never raises; when a sub-model call
\* raises it returns Unknown / Unknown, the two failure markers and a
\* model_meta that carries the fault.
C8_DegradedNeverRaises ==
    (ai.pc = "returned" /\ ai.service = "huggingface") =>
        /\ ai.raised = NoError
        /\ SomeStageRaises(ai.out) =>
            /\ ai.result.category = "Unknown"
            /\ ai.result.severity = "Unknown"
            /\ ai.result.summary = "AI processing failed."
            /\ ai.result.recommendation = "Manual review required."
            /\ ai.result.model_meta = [error |-> FirstRaisingStage(ai.out) \o " model failed"]

\* C8 witness: a call has returned in which the last sub-model, the
\* recommendation generator, was the one to raise.
C8_Witness ==
    /\ ai.pc = "returned"
    /\ ai.service = "huggingface"
    /\ SomeStageRaises(ai.out)
    /\ FirstRaisingStage(ai.out) = "recommendation"

\* the rule table of the deterministic rule engine, in its canonical order
CanonicalRules ==
    << [keywords |-> Keywords1, category |-> "Critical Failure", severity |-> "critical",
        recommendation |-> "Ground the aircraft. Full engineering review required."],
       [keywords |-> Keywords2, category |-> "Mechanical", severity |-> "high",
        recommendation |-> "Immediate maintenance check required."],
       [keywords |-> Keywords3, category |-> "Flight Controls", severity |-> "high",
        recommendation |-> "Inspect relevant flight control systems before next flight."],
       [keywords |-> Keywords4, category |-> "Avionics", severity |-> "medium",
        recommendation |-> "Schedule maintenance for the avionics system."],
       [keywords |-> Keywords5, category |-> "Weather", severity |-> "medium",
        recommendation |-> "Review flight plan and weather briefings."],
       [keywords |-> Keywords6, category |-> "Human Factors", severity |-> "low",
        recommendation |-> "Add to next training session for crew resource management."] >>

RuleMatches(k, text) ==
    \E keyword \in CanonicalRules[k].keywords : Contains(Lower(text), keyword)

\* C9: MockAIService.process_text returns the category, severity and
\* recommendation of the first rule, in the order 1..6, one of whose
\* keywords occurs in the lower-cased text, and General / low / "Monitor
\* closely." when there is none; "bird strike" together with "engine" gives
\* Critical Failure / critical.
C9_FirstMatchingRuleWins ==
    (ai.pc = "returned" /\ ai.service = "mock") =>
        /\ \A k \in 1..Len(CanonicalRules) :
              (RuleMatches(k, ai.text) /\ \A h \in 1..(k - 1) : ~RuleMatches(h, ai.text)) =>
                  /\ ai.result.category = CanonicalRules[k].category
                  /\ ai.result.severity = CanonicalRules[k].severity
                  /\ ai.result.recommendation = CanonicalRules[k].recommendation
        /\ (\A k \in 1..Len(CanonicalRules) : ~RuleMatches(k, ai.text)) =>
              /\ ai.result.category = "General"
              /\ ai.result.severity = "low"
              /\ ai.result.recommendation = "Monitor closely."
        /\ (Contains(Lower(ai.text), "bird strike") /\ Contains(Lower(ai.text), "engine")) =>
              /\ ai.result.category = "Critical Failure"
              /\ ai.result.severity = "critical"
        /\ ai.raised = NoError

\* C9 witness: the rule engine has classified a text that holds both
\* "bird strike" and "engine".
C9_Witness ==
    /\ ai.pc = "returned"
    /\ ai.service = "mock"
    /\ Contains(Lower(ai.text), "bird strike")
    /\ Contains(Lower(ai.text), "engine")

\* C10: add_event for a report whose (timestamp, raw_event_text) is that of a
\* stored Report raises nothing and leaves the store as it was, the stored
\* Report with every field included.
C10_ConflictingInsertAbsorbed ==
    (last_add.called /\ \E r \in last_add.before : SamePair(r, last_add.report)) =>
        /\ last_add.raised = NoError
        /\ last_add.after = last_add.before
        /\ db.rows = last_add.before

\* C10 witness: add_event was called with the pair of a stored Report and
\* with an id, a source and enrichment fields that differ from that Report's.
C10_Witness ==
    /\ last_add.called
    /\ \E r \in last_add.before :
          /\ SamePair(r, last_add.report)
          /\ r.id # last_add.report.id
          /\ r.source # last_add.report.source
          /\ r.category # last_add.report.category

\* the sentinel that process_text returns when the enrichment failed
Degraded(result) == "error" \in DOMAIN result.model_meta

\* C11 (as claimed): no Report is persisted for a record whose enrichment
\* failed.
C11_NoReportForFailedEnrichment ==
    \A p \in active :
        LET f == proc[p]
        IN  \A i \in Ops(f, "add_event") :
                f.trace[i].stored =>
                    \A j \in EntriesOf(f, f.trace[i].file_idx, f.trace[i].rec_idx, "process_text") :
                        ~Degraded(f.trace[j].result)

\* C11 (amended): add_event is called for a record only right after
\* process_text has returned for that record, and is given the summary,
\* category, severity, recommendation and model_meta of that result, the
\* sentinel of a failed enrichment included.
C11_ReportCarriesReturnedResult ==
    \A p \in active :
        LET f == proc[p]
        IN  \A i \in Ops(f, "add_event") :
                /\ i > 1
                /\ f.trace[i - 1].op = "process_text"
                /\ f.trace[i - 1].file_idx = f.trace[i].file_idx
                /\ f.trace[i - 1].rec_idx = f.trace[i].rec_idx
                /\ f.trace[i - 1].raised = NoError
                /\ f.trace[i].report.raw_event_text = f.trace[i - 1].raw_event_text
                /\ f.trace[i].report.summary = f.trace[i - 1].result.summary
                /\ f.trace[i].report.category = f.trace[i - 1].result.category
                /\ f.trace[i].report.severity = f.trace[i - 1].result.severity
                /\ f.trace[i].report.recommendation = f.trace[i - 1].result.recommendation
                /\ f.trace[i].report.model_meta = f.trace[i - 1].result.model_meta

\* C11 witness: the sentinel of a failed enrichment was inserted and is a
\* Report of the store.
C11_Witness ==
    \E p \in active :
        LET f == proc[p]
        IN  \E i \in Ops(f, "add_event") :
                /\ i > 1
                /\ f.trace[i - 1].op = "process_text"
                /\ Degraded(f.trace[i - 1].result)
                /\ f.trace[i].stored
                /\ f.trace[i].report \in db.rows
                /\ f.trace[i].report.category = "Unknown"

\* C12: no step of add_event, report_exists, get_stats_by_category,
\* list_reports_by_severity, get_report_by_id, init_db or
\* process_and_store_files removes a stored Report or changes one of its
\* fields: every Report of the store is, unchanged, in the store after the step.
C12_StoreOnlyGrows ==
    [][\A r \in db.rows : r \in db'.rows]_vars

\* C12 witness: init_db has just been called on a store that held two
\* Reports, and holds them still.
C12_Witness ==
    /\ call.op = "init_db"
    /\ Cardinality(call.before) >= 2
    /\ db.rows = call.before

\* the records of the files a call was given
RecordsOf(f) ==
    UNION {{SelectAndParse(f.file_paths[k]).records[n] :
               n \in 1..Len(SelectAndParse(f.file_paths[k]).records)} :
           k \in 1..Len(f.file_paths)}

\* C13: two processes ingesting at once files that share records, under
\* every interleaving of their report_exists, process_text and add_event
\* steps: the store never holds two Reports of one (timestamp,
\* raw_event_text), no step of either process raises, every file ends as
\* processed, and when both calls have ended each record with a text is in
\* the store.
C13_RaceAbsorbed ==
    /\ \A r, q \in db.rows : SamePair(r, q) => r = q
    /\ \A p \in Procs :
        LET f == proc[p]
        IN  /\ f.raised = NoError
            /\ \A k \in 1..Len(f.outcomes) : f.outcomes[k] = "ok"
            /\ \A i \in 1..Len(f.trace) :
                  f.trace[i].op # "record" => f.trace[i].raised = NoError
    /\ (\A p \in Procs : Completed(proc[p])) =>
          \A p \in Procs : \A record \in RecordsOf(proc[p]) :
              ~Falsy(record.raw_event_text) => \E r \in db.rows : SamePair(r, record)

\* C13 witness: both calls have ended; both processes had found the shared
\* pair absent and enriched it, one insert was stored and the other absorbed.
C13_Witness ==
    /\ \A p \in Procs : Completed(proc[p])
    /\ \E i \in Ops(proc[1], "add_event"), j \in Ops(proc[2], "add_event") :
          /\ SamePair(proc[1].trace[i].report, proc[2].trace[j].report)
          /\ proc[1].trace[i].stored # proc[2].trace[j].stored

\* C14 (as claimed): when the existence check, the enrichment or the insert
\* of a record raises, the records after it in the same file are still
\* reached.
C14_LaterRecordsStillProcessed ==
    \A p \in active :
        LET f == proc[p]
        IN  Completed(f) =>
                \A i \in 1..Len(f.trace) :
                    (/\ f.trace[i].op # "record"
                     /\ f.trace[i].raised # NoError
                     /\ f.trace[i].rec_idx <
                           Len(SelectAndParse(f.file_paths[f.trace[i].file_idx]).records))
                    => EntriesOf(f, f.trace[i].file_idx, f.trace[i].rec_idx + 1, "record") # {}

\* the place of an operation in the loop body of process_and_store_files
OpRank(op) ==
    CASE op = "record" -> 1
      [] op = "report_exists" -> 2
      [] op = "process_text" -> 3
      [] op = "add_event" -> 4

\* entry i of the trace is about an earlier record than entry j, or about the
\* same record and an earlier operation of the loop body (a strict order:
\* when each entry precedes the next, each precedes all that follow)
Precedes(f, i, j) ==
    \/ f.trace[i].file_idx < f.trace[j].file_idx
    \/ /\ f.trace[i].file_idx = f.trace[j].file_idx
       /\ f.trace[i].rec_idx < f.trace[j].rec_idx
    \/ /\ f.trace[i].file_idx = f.trace[j].file_idx
       /\ f.trace[i].rec_idx = f.trace[j].rec_idx
       /\ OpRank(f.trace[i].op) < OpRank(f.trace[j].op)

\* C15: within one call the operations happen file by file in the order
\* given and record by record in parse order, the n-th record handled being
\* the n-th the parser returned; no record is enriched or inserted twice;
\* all operations on a record, its insert included, come before the
\* existence check of the next.
C15_StrictOrder ==
    \A p \in active :
        LET f == proc[p]
        IN  /\ \A i \in 1..(Len(f.trace) - 1) : Precedes(f, i, i + 1)
            /\ \A i \in 1..Len(f.trace) :
                  LET parsed == SelectAndParse(f.file_paths[f.trace[i].file_idx]).records
                  IN  /\ f.trace[i].rec_idx \in 1..Len(parsed)
                      /\ f.trace[i].op \in {"record", "report_exists", "process_text"} =>
                            f.trace[i].raw_event_text = parsed[f.trace[i].rec_idx].raw_event_text
                      /\ f.trace[i].op = "add_event" =>
                            /\ f.trace[i].report.raw_event_text =
                                  parsed[f.trace[i].rec_idx].raw_event_text
                            /\ f.trace[i].report.timestamp =
                                  parsed[f.trace[i].rec_idx].timestamp
            /\ \A i \in Ops(f, "record") :
                  \A op \in {"process_text", "add_event"} :
                      Cardinality(EntriesOf(f, f.trace[i].file_idx, f.trace[i].rec_idx, op)) <= 1

\* C15 witness: a call over two files has ended in which two records of the
\* first file and one of the second were enriched and inserted.
C15_Witness ==
    \E p \in active :
        LET f == proc[p]
        IN  /\ Completed(f)
            /\ \E i, j, k \in Ops(f, "add_event") :
                  /\ f.trace[i].file_idx = 1
                  /\ f.trace[j].file_idx = 1
                  /\ f.trace[i].rec_idx < f.trace[j].rec_idx
                  /\ f.trace[k].file_idx = 2
                  /\ f.trace[k - 1].op = "process_text"

\* what the caller of a command got wrong: an unknown stat type, an id that
\* matches no report, a severity outside the choices, no file or a missing file
CallerInputError(c) ==
    \/ c.command = "stats" /\ c.arg # "category"
    \/ c.command = "show" /\ ~\E r \in db.rows : r.id = c.arg
    \/ c.command = "list" /\ Lower(c.arg) \notin SeverityChoices
    \/ c.command = "ingest" /\ (c.arg = <<>> \/ c.usage_error)

\* C16 (as claimed): a command exits with a non-zero status exactly when the
\* caller's input was in error.
C16_ExitStatusTellsInputError ==
    call.op = "cli" => (call.exit_code # 0 <=> CallerInputError(call))

\* C17 (as claimed): parse_ops_file and parse_tech_file fail for every file
\* that is not valid JSON or whose top-level value is not a sequence, an
\* empty object included.
C17_NonSequenceFails ==
    (call.op = "parse" /\ call.pc = "returned" /\ call.doc.kind # "array") =>
        call.raised # NoError

\* C18 (as claimed): report_exists(t, x) returns, and returns true exactly
\* when the store holds a Report with timestamp t and raw_event_text x:
\* false as long as none was added, true once add_event has stored one.
C18_ReportExistsTellsStored ==
    call.op = "report_exists" =>
        /\ call.raised = NoError
        /\ call.result = \E r \in db.rows : /\ r.timestamp = call.timestamp
                                            /\ r.raw_event_text = call.raw_event_text

\* a SQLiteHandler has been constructed on the storage target: by the
\* factory of a call that entered process_and_store_files, by a direct
\* caller or by the AppContext of a command
HandlerConstructed ==
    \/ last_add.called
    \/ call.op \notin {"none", "parse"}
    \/ \E p \in active : proc[p].pc # "idle" /\ proc[p].nargs = 1

\* C19 (as claimed): once a SQLiteHandler has been constructed, whatever its
\* storage target was before, the operations on it find the flight_reports
\* table present: none fails for want of the table.
C19_TableAlwaysPresent ==
    HandlerConstructed =>
        /\ TableVisible(db)
        /\ last_add.called => last_add.raised # "OperationalError"
        /\ call.op \in {"report_exists", "get_stats_by_category",
                        "list_reports_by_severity", "get_report_by_id"} =>
              call.raised # "OperationalError"

\* the number of sub-model invocations one call makes: up to and including
\* the first stage that raises
StagesRun(out) ==
    IF SomeStageRaises(out)
    THEN CHOOSE k \in 1..Len(HFStages) : HFStages[k] = FirstRaisingStage(out)
    ELSE Len(HFStages)

\* C20: one HuggingFaceAIService.process_text call invokes the sub-models in
\* the order category, severity, summary, recommendation, each at most once
\* and each on the text of the call; the recommendation generator is invoked
\* only after both classifiers have answered and is given their answers;
\* after the first stage that raises none is invoked.
C20_StagesInOrder ==
    (ai.pc = "returned" /\ ai.service = "huggingface") =>
        /\ Len(ai.calls) = StagesRun(ai.out)
        /\ \A k \in 1..Len(ai.calls) :
              /\ ai.calls[k].stage = HFStages[k]
              /\ ai.calls[k].text = ai.text
        /\ \A k \in 1..Len(ai.calls) :
              ai.calls[k].stage = "recommendation" =>
                  /\ \E h \in 1..(k - 1) : ai.calls[h].stage = "category"
                  /\ \E h \in 1..(k - 1) : ai.calls[h].stage = "severity"
                  /\ ai.out.category # Raise
                  /\ ai.out.severity # Raise
                  /\ ai.calls[k].category = ai.out.category
                  /\ ai.calls[k].severity = ai.out.severity
        /\ ~SomeStageRaises(ai.out) =>
              /\ ai.result.category = ai.calls[4].category
              /\ ai.result.severity = ai.calls[4].severity

\* C20 witness: a call in which all four stages ran and the recommendation
\* generator was given Weather / critical.
C20_Witness ==
    /\ ai.pc = "returned"
    /\ ai.service = "huggingface"
    /\ ~SomeStageRaises(ai.out)
    /\ Len(ai.calls) = 4
    /\ ai.calls[4].category = "Weather"
    /\ ai.calls[4].severity = "critical"

\* the store holds, for the pair of this record, the sentinel of a failed
\* enrichment
StoredDegraded(record) ==
    \E r \in db.rows : /\ SamePair(r, record)
                       /\ Degraded(r)
                       /\ r.category = "Unknown"
                       /\ r.severity = "Unknown"

\* C21: once the sentinel of a failed enrichment is stored for a pair, every
\* later record with that pair, in the same or a later batch, is skipped as
\* a duplicate: its step is a report_exists that answers true and moves on
\* to the next record, process_text is never invoked for it, and no step
\* removes or changes the stored sentinel Report.
C21_DegradedIsSticky ==
    [][/\ \A r \in db.rows : Degraded(r) => r \in db'.rows
       /\ \A p \in active :
            LET f == proc[p]
                g == proc'[p]
            IN  /\ (/\ f.pc = "check"
                    /\ f.rec_idx <= Len(f.raw_records)
                    /\ g # f
                    /\ StoredDegraded(CurRecord(f)))
                   => /\ g.pc = "check"
                      /\ g.file_idx = f.file_idx
                      /\ g.rec_idx = f.rec_idx + 1
                      /\ g.total_new_records = f.total_new_records
                      /\ g.trace[Len(g.trace)].op = "report_exists"
                      /\ g.trace[Len(g.trace)].result
                      /\ Ops(g, "process_text") = Ops(f, "process_text")
                      /\ Ops(g, "add_event") = Ops(f, "add_event")
                      /\ db' = db
                /\ (f.pc = "enrich" /\ g # f) => ~StoredDegraded(CurRecord(f))
      ]_vars

\* C21 witness: a later batch has ended whose first record has the pair of
\* a stored sentinel Report; it was found in the store and not enriched.
C21_Witness ==
    \E p \in active :
        LET f == proc[p]
        IN  /\ Completed(f)
            /\ \E i \in Ops(f, "record") :
                  /\ f.trace[i].file_idx = 1
                  /\ f.trace[i].rec_idx = 1
                  /\ f.trace[i].in_store
                  /\ StoredDegraded(f.trace[i])
                  /\ EntriesOf(f, 1, 1, "process_text") = {}
                  /\ \E j \in EntriesOf(f, 1, 1, "report_exists") : f.trace[j].result

====
